---- MODULE Spec2Model ----
(***************************************************************************)
(* pixel_png_to_svg.py: a binary raster is converted to an SVG document by *)
(* extracting the unit boundary edges of the black pixels, tracing them    *)
(* into paths and grouping the paths by top-level contour.                 *)
(*                                                                         *)
(* Coordinates: a pixel is indexed [y, x] as in the source; a lattice      *)
(* point and a contour point are <<x, y>>; an edge is <<from, to>>.        *)
(***************************************************************************)
EXTENDS Integers, Sequences, FiniteSets, TLC

\* Rasters of every size up to GridW x GridH are enumerated exhaustively.
GridW == 2
GridH == 2
\* The batch loop is run on up to MaxFiles command-line arguments.
MaxFiles == 2
\* trace_edges alone is run on every set of directed unit edges between the
\* lattice points (0..TraceW) x (0..1).
TraceW == 1

VARIABLES
    width, height,   \* png_to_svg: height, width = gray.shape
    binary_image,    \* png_to_svg: binary (0 = black, 255 = white), keyed <<y, x>>
    contours,        \* cv2.findContours: the contours, each a set of points <<x, y>>
    hierarchy,       \* cv2.findContours: rows <<next, prev, first_child, parent>>
    edges,           \* generate_svg: edges (trace_edges: the members of edges_list)
    used,            \* trace_edges: used
    paths,           \* trace_edges: paths
    svg_lines,       \* generate_svg: svg_lines
    pc,              \* position in png_to_svg / generate_svg / trace_edges
    run, prev_svg,   \* number of the current run on this raster, output of the run before
    input_files,     \* __main__: sys.argv[1:], each [png, outcome]
    png_files,       \* __main__: png_files
    file_idx,        \* __main__: number of files whose loop body has completed
    successful, failed,
    summary,         \* __main__: <<successful, failed>> as printed, or <<>>
    main_pc          \* position in __main__

vars == <<width, height, binary_image, contours, hierarchy, edges, used, paths,
          svg_lines, pc, run, prev_svg, input_files, png_files, file_idx,
          successful, failed, summary, main_pc>>

rasterVars == <<width, height, binary_image, contours, hierarchy, edges, used,
                paths, svg_lines, pc, run, prev_svg>>

batchVars == <<input_files, png_files, file_idx, successful, failed, summary, main_pc>>

----------------------------------------------------------------------------
(* Small helpers *)

Min(S) == CHOOSE a \in S : \A b \in S : a <= b
Max(S) == CHOOSE a \in S : \A b \in S : a >= b

RECURSIVE Concat(_)
\* " ".join / list concatenation of a sequence of sequences
Concat(ss) == IF ss = <<>> THEN <<>> ELSE Head(ss) \o Concat(Tail(ss))

----------------------------------------------------------------------------
(* cv2.findContours(inverted, RETR_TREE, CHAIN_APPROX_NONE), after Suzuki  *)
(* and Abe: foreground components are 8-connected, background regions are  *)
(* 4-connected, the image is surrounded by a background frame.  The outer  *)
(* border of a component is its set of pixels with a 4-neighbour in the    *)
(* background region that surrounds it; the hole border of a background    *)
(* region is the set of pixels of the surrounding component that have a    *)
(* 4-neighbour in the region.  Borders are numbered in raster-scan order   *)
(* of their starting pixel.  Cells are <<y, x>>.                           *)

\* cv2.bitwise_not on an 8-bit image
BitwiseNot(img) == [c \in DOMAIN img |-> 255 - img[c]]

Nbrs(c, k) ==
    IF k = 4
    THEN {<<c[1] - 1, c[2]>>, <<c[1] + 1, c[2]>>, <<c[1], c[2] - 1>>, <<c[1], c[2] + 1>>}
    ELSE {<<c[1] + dy, c[2] + dx>> : dy \in -1..1, dx \in -1..1} \ {c}

RECURSIVE Flood(_, _, _)
\* the k-connected component of S in cells
Flood(S, cells, k) ==
    CHOOSE R \in {IF T = S THEN S ELSE Flood(T, cells, k) :
                    T \in {S \cup {c \in cells : Nbrs(c, k) \cap S # {}}}} : TRUE

Components(cells, k) == UNION {{Flood({c}, X, k) : c \in X} : X \in {cells}}

\* first cell of S in raster-scan order
ScanMin(S) ==
    CHOOSE c \in S : \A d \in S : c[1] < d[1] \/ (c[1] = d[1] /\ c[2] <= d[2])

Above(c) == <<c[1] - 1, c[2]>>
LeftOf(c) == <<c[1], c[2] - 1>>

\* the member of a partition that holds a cell
Holding(parts, cell) == CHOOSE s \in parts : cell \in s

\* the outer border of component c: where the scan meets it first, and the
\* background region around it
OuterBorder(c, regions) ==
    [kind |-> 0, comp |-> c, region |-> Holding(regions, Above(ScanMin(c))),
     start |-> ScanMin(c)]

\* the hole border of background region r: met first at the pixel left of the
\* region's first cell, and carried by the component around it
HoleBorder(r, comps) ==
    [kind |-> 1, comp |-> Holding(comps, Above(ScanMin(r))), region |-> r,
     start |-> LeftOf(ScanMin(r))]

\* one outer border per foreground component, one hole border per background
\* region other than the frame
Borders(comps, regions) ==
    {OuterBorder(c, regions) : c \in comps}
    \cup {HoleBorder(r, comps) : r \in {q \in regions : <<-1, -1>> \notin q}}

ScanBefore(a, b) ==
    \/ a.start[1] < b.start[1]
    \/ a.start[1] = b.start[1] /\ a.start[2] < b.start[2]
    \/ a.start = b.start /\ a.kind < b.kind

\* the borders in the order the raster scan meets them
ScanOrder(B) ==
    [i \in 1..Cardinality(B) |->
        CHOOSE b \in B : Cardinality({o \in B : ScanBefore(o, b)}) = i - 1]

\* the points (x, y) of a border
BorderPoints(b) == {<<c[2], c[1]>> : c \in {p \in b.comp : Nbrs(p, 4) \cap b.region # {}}}

\* the (1-based) number of the border that directly surrounds border i, or 0
ParentOf(seq, i) ==
    Max({0} \cup {p \in 1..Len(seq) :
                    IF seq[i].kind = 0
                    THEN seq[p].kind = 1 /\ seq[p].region = seq[i].region
                    ELSE seq[p].kind = 0 /\ seq[p].comp = seq[i].comp})

\* the 0-based index of the first (last) border of S, -1 when there is none
FirstOf(S) == IF S = {} THEN -1 ELSE Min(S) - 1
LastOf(S) == IF S = {} THEN -1 ELSE Max(S) - 1

\* <<next, previous, first_child, parent>> of border i, 0-based, -1 for none
HierarchyRow(parent, i) ==
    <<FirstOf({j \in DOMAIN parent : j > i /\ parent[j] = parent[i]}),
      LastOf({j \in DOMAIN parent : j < i /\ parent[j] = parent[i]}),
      FirstOf({j \in DOMAIN parent : parent[j] = i}),
      parent[i] - 1>>

ContoursOf(seq) == [i \in 1..Len(seq) |-> BorderPoints(seq[i])]

HierarchyOf(parent) == [i \in 1..Len(parent) |-> HierarchyRow(parent, i)]

\* the borders of the image inv in scan order
BorderSeq(inv, w, h) ==
    CHOOSE s \in
      {ScanOrder(B) :
         B \in {Borders(comps, regions) :
                  comps \in {Components({c \in DOMAIN inv : inv[c] # 0}, 8)},
                  regions \in {Components({<<y, x>> : y \in -1..h, x \in -1..w}
                                             \ {c \in DOMAIN inv : inv[c] # 0}, 4)}}} : TRUE

\* <<contours, hierarchy>> as returned by cv2.findContours; contour idx (0-based)
\* is contours[idx + 1], hierarchy[idx][k] is hierarchy[idx + 1][k + 1].
FindContours(inv, w, h) ==
    CHOOSE r \in {<<ContoursOf(seq), HierarchyOf([i \in 1..Len(seq) |-> ParentOf(seq, i)])>> :
                    seq \in {BorderSeq(inv, w, h)}} : TRUE

\* cv2.boundingRect of a contour: <<x, y, w, h>>
BoundingRect(contour) ==
    <<Min({p[1] : p \in contour}), Min({p[2] : p \in contour}),
      Max({p[1] : p \in contour}) - Min({p[1] : p \in contour}) + 1,
      Max({p[2] : p \in contour}) - Min({p[2] : p \in contour}) + 1>>

----------------------------------------------------------------------------
(* generate_svg: edge extraction *)

TopEdge(x, y) == <<<<x, y>>, <<x + 1, y>>>>
RightEdge(x, y) == <<<<x + 1, y>>, <<x + 1, y + 1>>>>
BottomEdge(x, y) == <<<<x + 1, y + 1>>, <<x, y + 1>>>>
LeftEdgeReversed(x, y) == <<<<x, y>>, <<x, y + 1>>>>
LeftEdge(x, y) == <<<<x, y + 1>>, <<x, y>>>>

\* the edges one black pixel adds
PixelEdges(img, w, h, x, y) ==
    (IF y = 0 \/ img[<<y - 1, x>>] = 255 THEN {TopEdge(x, y)} ELSE {})
    \cup (IF x = w - 1 \/ img[<<y, x + 1>>] = 255 THEN {RightEdge(x, y)} ELSE {})
    \cup (IF y = h - 1 \/ img[<<y + 1, x>>] = 255 THEN {BottomEdge(x, y)} ELSE {})
    \cup (IF x = 0 \/ img[<<y, x - 1>>] = 255 THEN {LeftEdge(x, y)} ELSE {})

ExtractedEdges(img, w, h) ==
    UNION {PixelEdges(img, w, h, c[2], c[1]) : c \in {d \in DOMAIN img : img[d] = 0}}

\* the first three lines of the document
SvgHeader(w, h) == <<<<"xml">>, <<"svg", w, h>>, <<"rect", w, h>>>>

----------------------------------------------------------------------------
(* trace_edges.  edges_list = list(edges) enumerates the set in an order   *)
(* the language does not fix; the start edge of a path is the unused edge  *)
(* of lowest index, and the next edge at a point is the unused outgoing    *)
(* edge of lowest index.  Every choice below is the choice some order      *)
(* makes (the order in which the edges are consumed), and every order      *)
(* makes one of these choices.                                             *)

MarkStartSkipped(u, e) == u
\* used.add(start_edge_idx)
MarkStart(u, e) == u \cup {e}

RECURSIVE Follow(_, _, _, _)
\* the while loop: the set of <<path, used>> it can end with
Follow(E, path, u, current_point) ==
    LET p == Append(path, current_point)
        unusedOut == {e \in E \ u : e[1] = current_point}
    IN  IF unusedOut = {} THEN {<<p, u>>}
        ELSE UNION {Follow(E, p, u \cup {e}, e[2]) : e \in unusedOut}

\* one iteration of the for loop that starts a new path at start_edge
TraceFrom(E, u, start_edge) == Follow(E, <<start_edge[1]>>, MarkStart(u, start_edge), start_edge[2])

----------------------------------------------------------------------------
(* generate_svg: grouping and emission *)

\* x <= path_center_x <= x + w and y <= path_center_y <= y + h, with the
\* centre given doubled: cx2 = path_min_x + path_max_x, cy2 likewise
CentreInRect(cx2, cy2, r) ==
    /\ 2 * r[1] <= cx2 /\ cx2 <= 2 * (r[1] + r[3])
    /\ 2 * r[2] <= cy2 /\ cy2 <= 2 * (r[2] + r[4])

\* paths_belongs_to_contours
PathsBelongsToContours(path, cs) ==
    IF Len(path) = 0 \/ cs = {} THEN FALSE
    ELSE \E c \in cs :
            CentreInRect(Min({path[i][1] : i \in 1..Len(path)})
                            + Max({path[i][1] : i \in 1..Len(path)}),
                         Min({path[i][2] : i \in 1..Len(path)})
                            + Max({path[i][2] : i \in 1..Len(path)}),
                         BoundingRect(c))

\* "M x y L x y ... Z"
PathParts(path) ==
    <<<<"M", path[1][1], path[1][2]>>>>
    \o [i \in 1..(Len(path) - 1) |-> <<"L", path[i + 1][1], path[i + 1][2]>>]
    \o <<<<"Z">>>>

RECURSIVE ChildChain(_, _)
\* the while loop over a contour's children
ChildChain(hier, child_idx) ==
    IF child_idx = -1 THEN {}
    ELSE {child_idx} \cup ChildChain(hier, hier[child_idx + 1][1])

\* region_path_data joined: the d attribute of one region
RegionPathData(ps, cs) ==
    Concat([i \in 1..Len(ps) |->
              IF Len(ps[i]) >= 3 /\ PathsBelongsToContours(ps[i], cs)
              THEN PathParts(ps[i]) ELSE <<>>])

\* if region_path_data: svg_lines.append('  <path d=... />')
AppendPath(lines, d) == IF d # <<>> THEN Append(lines, <<"path", d>>) ELSE lines

RECURSIVE EmitRegions(_, _, _, _, _, _)
\* the for loop over contour indices, from idx on
EmitRegions(cont, hier, ps, idx, processed, lines) ==
    IF idx = Len(cont) THEN lines
    ELSE IF idx \in processed \/ hier[idx + 1][4] # -1
         THEN EmitRegions(cont, hier, ps, idx + 1, processed, lines)
         ELSE CHOOSE out \in
                {EmitRegions(cont, hier, ps, idx + 1, processed \cup region_indices,
                             AppendPath(lines,
                                        RegionPathData(ps, {cont[i + 1] : i \in region_indices}))) :
                   region_indices \in {{idx} \cup ChildChain(hier, hier[idx + 1][3])}} : TRUE

----------------------------------------------------------------------------
(* Inputs *)

Cells(w, h) == {<<y, x>> : y \in 0..(h - 1), x \in 0..(w - 1)}

Image(w, h, black) == [c \in Cells(w, h) |-> IF c \in black THEN 0 ELSE 255]

GridImages ==
    UNION {{[w |-> w, h |-> h, img |-> Image(w, h, b)] : b \in SUBSET Cells(w, h)} :
             w \in 1..GridW, h \in 1..GridH}

Box(x0, y0, x1, y1) == {<<y, x>> : y \in y0..y1, x \in x0..x1}

\* a single black pixel at (2,2) of a 5x5 raster
ScenarioA == [w |-> 5, h |-> 5, img |-> Image(5, 5, {<<2, 2>>})]
\* a 3x3 black square with a white centre
ScenarioB == [w |-> 3, h |-> 3, img |-> Image(3, 3, Box(0, 0, 2, 2) \ {<<1, 1>>})]
\* solid, hole, solid: a 5x5 ring with one black pixel in the middle of its hole
ScenarioE ==
    [w |-> 5, h |-> 5, img |-> Image(5, 5, (Box(0, 0, 4, 4) \ Box(1, 1, 3, 3)) \cup {<<2, 2>>})]
\* an L and a separate pixel inside the L's bounding box
CornerAndDot ==
    [w |-> 3, h |-> 3, img |-> Image(3, 3, Box(0, 0, 2, 0) \cup Box(0, 0, 0, 2) \cup {<<2, 2>>})]
\* a 4x3 block with a hole at (1,1), and a separate hook around its lower right
RingAndHook ==
    [w |-> 6, h |-> 5,
     img |-> Image(6, 5, (Box(0, 0, 3, 2) \ {<<1, 1>>}) \cup Box(2, 4, 5, 4) \cup Box(5, 1, 5, 4))]

Scenarios == {ScenarioA, ScenarioB, ScenarioE, CornerAndDot, RingAndHook}

----------------------------------------------------------------------------
(* png_to_svg on one raster *)

BatchIdle ==
    /\ input_files = <<>> /\ png_files = <<>> /\ file_idx = 0
    /\ successful = 0 /\ failed = 0 /\ summary = <<>> /\ main_pc = "idle"

InitRaster(S) ==
    /\ \E r \in S : width = r.w /\ height = r.h /\ binary_image = r.img
    /\ contours = <<>> /\ hierarchy = <<>>
    /\ edges = {} /\ used = {} /\ paths = <<>> /\ svg_lines = <<>>
    /\ pc = "contours"
    /\ run = 1 /\ prev_svg = <<>>
    /\ BatchIdle

Init == InitRaster(GridImages) \/ InitRaster(Scenarios)

\* png_to_svg: inverted = bitwise_not(binary); contours, hierarchy = findContours(...)
FindContoursStep ==
    /\ pc = "contours"
    /\ \E r \in {FindContours(BitwiseNot(binary_image), width, height)} :
          contours' = r[1] /\ hierarchy' = r[2]
    /\ pc' = "generate"
    /\ UNCHANGED <<width, height, binary_image, edges, used, paths, svg_lines, run, prev_svg>>
    /\ UNCHANGED batchVars

\* generate_svg up to the call of trace_edges; with no contours it returns the
\* blank document at once.  cv2 returns hierarchy None exactly when there are
\* no contours.
ExtractEdges ==
    /\ pc = "generate"
    /\ IF Len(contours) = 0
       THEN /\ svg_lines' = Append(SvgHeader(width, height), <<"/svg">>)
            /\ edges' = {}
            /\ pc' = "done"
       ELSE /\ svg_lines' = SvgHeader(width, height)
            /\ edges' = ExtractedEdges(binary_image, width, height)
            /\ pc' = "trace"
    /\ used' = {} /\ paths' = <<>>
    /\ UNCHANGED <<width, height, binary_image, contours, hierarchy, run, prev_svg>>
    /\ UNCHANGED batchVars

\* trace_edges: one iteration of the for loop that finds an unused start edge
TracePath ==
    /\ pc = "trace"
    /\ \E start_edge \in edges \ used :
         \E r \in TraceFrom(edges, used, start_edge) :
            /\ paths' = Append(paths, r[1])
            /\ used' = r[2]
    /\ UNCHANGED <<width, height, binary_image, contours, hierarchy, edges, svg_lines,
                   pc, run, prev_svg>>
    /\ UNCHANGED batchVars

\* generate_svg after trace_edges has returned: the regions and the closing line
EmitSvg ==
    /\ pc = "trace"
    /\ edges \ used = {}
    /\ svg_lines' = Append(IF edges # {}
                           THEN EmitRegions(contours, hierarchy, paths, 0, {}, svg_lines)
                           ELSE svg_lines,
                           <<"/svg">>)
    /\ pc' = "done"
    /\ UNCHANGED <<width, height, binary_image, contours, hierarchy, edges, used, paths,
                   run, prev_svg>>
    /\ UNCHANGED batchVars

Next == FindContoursStep \/ ExtractEdges \/ TracePath \/ EmitSvg

Spec == Init /\ [][Next]_vars

----------------------------------------------------------------------------
(* generate_svg run a second time on the same raster, contours and hierarchy *)

Rerun ==
    /\ pc = "done" /\ run = 1
    /\ run' = 2 /\ prev_svg' = svg_lines
    /\ pc' = "generate"
    /\ edges' = {} /\ used' = {} /\ paths' = <<>> /\ svg_lines' = <<>>
    /\ UNCHANGED <<width, height, binary_image, contours, hierarchy>>
    /\ UNCHANGED batchVars

InitTwice == InitRaster(GridImages)

NextTwice == FindContoursStep \/ ExtractEdges \/ TracePath \/ EmitSvg \/ Rerun

SpecTwice == InitTwice /\ [][NextTwice]_vars

----------------------------------------------------------------------------
(* trace_edges on an arbitrary set of directed unit edges *)

LatticePoints == {<<x, y>> : x \in 0..TraceW, y \in 0..1}

UnitEdges ==
    {e \in LatticePoints \X LatticePoints :
        \/ e[1][1] = e[2][1] /\ (e[1][2] - e[2][2]) \in {-1, 1}
        \/ e[1][2] = e[2][2] /\ (e[1][1] - e[2][1]) \in {-1, 1}}

InitTrace ==
    /\ edges \in SUBSET UnitEdges
    /\ width = 0 /\ height = 0 /\ binary_image = <<>>
    /\ contours = <<>> /\ hierarchy = <<>>
    /\ used = {} /\ paths = <<>> /\ svg_lines = <<>>
    /\ pc = "trace"
    /\ run = 1 /\ prev_svg = <<>>
    /\ BatchIdle

\* trace_edges: return paths
TraceReturn ==
    /\ pc = "trace"
    /\ edges \ used = {}
    /\ pc' = "returned"
    /\ UNCHANGED <<width, height, binary_image, contours, hierarchy, edges, used, paths,
                   svg_lines, run, prev_svg>>
    /\ UNCHANGED batchVars

NextTrace == TracePath \/ TraceReturn

SpecTrace == InitTrace /\ [][NextTrace]_vars

----------------------------------------------------------------------------
(* __main__: the batch loop.  What png_to_svg does with a file is an input: *)
(* "ok" (it returns), "missing" (os.path.exists is false), "unreadable"     *)
(* (cv2.imread returns None), "raises" (an Exception is raised inside).     *)

Outcomes == {"ok", "missing", "unreadable", "raises"}

Args == [png : BOOLEAN, outcome : Outcomes]

\* how a call of png_to_svg ends
PngToSvgEnds(outcome) ==
    CASE outcome = "missing" -> "SystemExit"      \* sys.exit(1)
      [] outcome = "unreadable" -> "SystemExit"   \* sys.exit(1)
      [] outcome = "raises" -> "Exception"
      [] OTHER -> "return"

\* except Exception: SystemExit derives from BaseException only
CaughtByExceptException(ending) == ending = "Exception"

RECURSIVE PngOnly(_)
\* [f for f in input_files if f.lower().endswith('.png')]
PngOnly(fs) ==
    IF fs = <<>> THEN <<>>
    ELSE (IF Head(fs).png THEN <<Head(fs)>> ELSE <<>>) \o PngOnly(Tail(fs))

InitBatch ==
    /\ input_files \in UNION {[1..n -> Args] : n \in 0..MaxFiles}
    /\ png_files = <<>> /\ file_idx = 0
    /\ successful = 0 /\ failed = 0 /\ summary = <<>>
    /\ main_pc = "start"
    /\ width = 0 /\ height = 0 /\ binary_image = <<>>
    /\ contours = <<>> /\ hierarchy = <<>>
    /\ edges = {} /\ used = {} /\ paths = <<>> /\ svg_lines = <<>>
    /\ pc = "idle"
    /\ run = 1 /\ prev_svg = <<>>

\* the argument checks before the loop
ParseArgs ==
    /\ main_pc = "start"
    /\ IF Len(input_files) = 0
       THEN png_files' = <<>> /\ main_pc' = "exit_usage"
       ELSE /\ png_files' = PngOnly(input_files)
            /\ main_pc' = IF PngOnly(input_files) = <<>> THEN "exit_no_png" ELSE "loop"
    /\ UNCHANGED <<input_files, file_idx, successful, failed, summary>>
    /\ UNCHANGED rasterVars

\* one iteration of the for loop over png_files
ProcessFile ==
    /\ main_pc = "loop"
    /\ file_idx < Len(png_files)
    /\ LET ending == PngToSvgEnds(png_files[file_idx + 1].outcome)
       IN  IF ending = "return"
           THEN /\ successful' = successful + 1 /\ failed' = failed
                /\ file_idx' = file_idx + 1 /\ main_pc' = main_pc
           ELSE IF CaughtByExceptException(ending)
                THEN /\ failed' = failed + 1 /\ successful' = successful
                     /\ file_idx' = file_idx + 1 /\ main_pc' = main_pc
                ELSE /\ main_pc' = "exited"
                     /\ UNCHANGED <<successful, failed, file_idx>>
    /\ UNCHANGED <<input_files, png_files, summary>>
    /\ UNCHANGED rasterVars

\* the summary after the loop
PrintSummary ==
    /\ main_pc = "loop"
    /\ file_idx = Len(png_files)
    /\ summary' = <<successful, failed>>
    /\ main_pc' = "done"
    /\ UNCHANGED <<input_files, png_files, file_idx, successful, failed>>
    /\ UNCHANGED rasterVars

NextBatch == ParseArgs \/ ProcessFile \/ PrintSummary

SpecBatch == InitBatch /\ [][NextBatch]_vars

----------------------------------------------------------------------------
(* Reading the document back: the <path> elements, their subpaths, and the  *)
(* cells an element fills under the even-odd rule.                          *)

PathElements == {k \in 1..Len(svg_lines) : svg_lines[k][1] = "path"}

PathData(k) == svg_lines[k][2]

CmdPoint(d, j) == <<d[j][2], d[j][3]>>

\* the M command that opens the subpath command j belongs to
SubStart(d, j) == Max({i \in 1..j : d[i][1] = "M"})

\* the segment command j draws: L from the point before it, Z back to the start
Segment(d, j) ==
    IF d[j][1] = "L" THEN <<CmdPoint(d, j - 1), CmdPoint(d, j)>>
    ELSE <<CmdPoint(d, j - 1), CmdPoint(d, SubStart(d, j))>>

\* the ray from the centre of cell (x, y) to the left crosses the segment
Crosses(seg, x, y) ==
    /\ seg[1][1] = seg[2][1] /\ seg[1][1] <= x
    /\ Min({seg[1][2], seg[2][2]}) <= y /\ y < Max({seg[1][2], seg[2][2]})

\* even-odd: the centre of cell (x, y) is inside an odd number of subpaths of d
FillsCell(d, x, y) ==
    Cardinality({j \in 1..Len(d) : d[j][1] # "M" /\ Crosses(Segment(d, j), x, y)}) % 2 = 1

\* the commands parts are a subpath of d
IsSubpath(parts, d) ==
    \E s \in 1..(Len(d) - Len(parts) + 1) : SubSeq(d, s, s + Len(parts) - 1) = parts

PathEdgeSet(p) == {<<p[i], p[i + 1]>> : i \in 1..(Len(p) - 1)}

\* trace_edges has consumed every edge
TraceComplete == pc \in {"trace", "done"} /\ edges \ used = {}

RECURSIVE ContourDepth(_, _)
\* the number of contours around contour idx
ContourDepth(hier, idx) ==
    IF hier[idx + 1][4] = -1 THEN 0 ELSE 1 + ContourDepth(hier, hier[idx + 1][4])

TopLevel == {idx \in 0..(Len(contours) - 1) : hierarchy[idx + 1][4] = -1}

\* the line of svg_lines that holds the region of top-level contour idx
RegionLine(idx) == 3 + Cardinality({j \in TopLevel : j <= idx})

\* the top edge of the first pixel of a contour in scan order: an edge of the
\* outer loop of the contour's component
AnchorEdge(contour) ==
    LET y0 == Min({p[2] : p \in contour})
        x0 == Min({p[1] : p \in {q \in contour : q[2] = y0}})
    IN  TopEdge(x0, y0)

\* the first subpath of d runs along edge e
FirstSubpathHas(d, e) ==
    \E j \in 1..(Min({i \in 1..Len(d) : d[i][1] = "Z"}) - 2) :
        <<CmdPoint(d, j), CmdPoint(d, j + 1)>> = e

\* the raster is two black pixels that touch at one corner only
DiagonalPair ==
    /\ width = 2 /\ height = 2
    /\ {c \in DOMAIN binary_image : binary_image[c] = 0} \in
          {{<<0, 0>>, <<1, 1>>}, {<<0, 1>>, <<1, 0>>}}

----------------------------------------------------------------------------
(* Claims *)

\* C1 (round trip): in the finished document a cell is black in the raster
\* exactly if its centre is filled, under the even-odd rule, by at least one
\* <path> element.
RoundTrip ==
    pc = "done" =>
        \A c \in DOMAIN binary_image :
            (binary_image[c] = 0) <=>
                (\E k \in PathElements : FillsCell(PathData(k), c[2], c[1]))

\* C2 (partition): once trace_edges has consumed every edge, no edge occurs
\* twice within a path, the edge sets of two paths are disjoint, and the union
\* of the paths' edge sets is the extracted edge set.
Partition ==
    TraceComplete =>
        /\ \A i \in 1..Len(paths) : Cardinality(PathEdgeSet(paths[i])) = Len(paths[i]) - 1
        /\ \A i, j \in 1..Len(paths) :
              i < j => PathEdgeSet(paths[i]) \cap PathEdgeSet(paths[j]) = {}
        /\ UNION {PathEdgeSet(paths[i]) : i \in 1..Len(paths)} = edges

\* three paths have been traced and emitted
PartitionWitness == pc = "done" /\ Len(paths) >= 3

\* C3 (closure): every path trace_edges has appended has at least 3 points
\* and ends at the point it starts from, whatever edges were picked.
Closure ==
    \A i \in 1..Len(paths) :
        Len(paths[i]) >= 3 /\ paths[i][1] = paths[i][Len(paths[i])]

\* a finished trace with a path that went through its own start point (a
\* corner shared by two diagonal pixels) and walked on before it closed
ClosureWitness ==
    /\ pc = "done"
    /\ \E i \in 1..Len(paths) :
          \E j \in 2..(Len(paths[i]) - 1) : paths[i][j] = paths[i][1]

\* C4 (simple loops): once every edge is consumed, no path leaves the same
\* lattice point twice, and two pixels touching only diagonally give exactly
\* two paths of four edges each.
SimpleLoops ==
    TraceComplete =>
        /\ \A i \in 1..Len(paths) :
              \A j, k \in 1..(Len(paths[i]) - 1) : j < k => paths[i][j] # paths[i][k]
        /\ DiagonalPair =>
              Len(paths) = 2 /\ \A i \in 1..Len(paths) : Len(paths[i]) = 5

\* C5 (regions partition the loops): in the finished document every traced
\* path is a subpath of exactly one <path> element.
OneRegionPerLoop ==
    pc = "done" =>
        \A i \in 1..Len(paths) :
            Cardinality({k \in PathElements : IsSubpath(PathParts(paths[i]), PathData(k))}) = 1

\* C6 (depth parity): every contour of even containment depth is the outer
\* boundary of a region of its own, so the finished document holds as many
\* <path> elements as there are contours of even depth (two for solid, hole,
\* solid).
RegionPerEvenDepth ==
    pc = "done" =>
        Cardinality(PathElements) =
            Cardinality({idx \in 0..(Len(contours) - 1) :
                            ContourDepth(hierarchy, idx) % 2 = 0})

\* C7 (malformed edge set): trace_edges never returns normally with a path
\* that stopped away from its start point.
OpenChainIsError ==
    pc = "returned" =>
        \A i \in 1..Len(paths) : paths[i][1] = paths[i][Len(paths[i])]

\* C8 (batch isolation): when the program has left the loop over the PNG
\* files, every file was attempted and the summary was printed with
\* successful + failed equal to the number of PNG files.
BatchIsolation ==
    main_pc \in {"done", "exited"} =>
        /\ file_idx = Len(png_files)
        /\ summary = <<successful, failed>>
        /\ successful + failed = Len(png_files)

\* C9 (determinism): a second run of generate_svg on the same raster,
\* contours and hierarchy ends with the document of the first run.
Determinism == (pc = "done" /\ run = 2) => svg_lines = prev_svg

\* C10 (subpath order): in the finished document the <path> element of every
\* region with holes starts with the region's outer loop.
OuterLoopFirst ==
    pc = "done" =>
        \A idx \in TopLevel :
            hierarchy[idx + 1][3] # -1 =>
                /\ RegionLine(idx) \in PathElements
                /\ FirstSubpathHas(PathData(RegionLine(idx)), AnchorEdge(contours[idx + 1]))

====
